---- MODULE Spec2Model ----
(***************************************************************************)
(* gdrivetoolbox: a client of the Google Drive v3 REST API and of the      *)
(* Google OAuth2 token endpoint.                                           *)
(*                                                                         *)
(* The model follows deploy/deploy.go and auth/auth.go.  A call of one of  *)
(* the four exported functions is a process: its arguments, its position,  *)
(* its locals, the HTTP requests it has issued and the responses it got.   *)
(* Every HTTP round trip is one step: the request is appended to the log,  *)
(* the server answers (and, for a request it carries out, changes Drive),  *)
(* and the code that follows the call runs up to the next request or the   *)
(* return.                                                                 *)
(***************************************************************************)
EXTENDS Integers, Sequences, FiniteSets, TLC

VARIABLES
    pc,     \* pc[p]: where invocation p stands
    args,   \* args[p]: the function called and its arguments
    loc,    \* loc[p]: the locals of the call that outlive a request
    sent,   \* sent[p]: the HTTP requests issued by the current call, in order
    resps,  \* resps[p]: the response to each of them
    ret,    \* ret[p]: what the call returned
    drive,  \* the files held by the remote Drive
    disk,   \* what the local path given to the call is
    ncalls, \* calls completed and followed by another one
    prev,   \* prev[p]: what the call before the current one returned
    before, \* before[p]: the Drive as it was when the current call began
    overlapped \* a call began while another one was running

vars == <<pc, args, loc, sent, resps, ret, drive, disk, ncalls, prev, before,
          overlapped>>

(***************************************************************************)
(* Bounds                                                                  *)
(***************************************************************************)
\* longest file list a search response to DeployPDF carries
MaxFiles == 1
\* longest file list a search response to CheckRemoteVersionExists carries
MaxCheckFiles == 2
\* calls of GetGoogleAccessToken made one after the other
MaxCalls == 2

\* the invocations the model follows (a caller may run two at once)
Procs == {"p1", "p2"}

(***************************************************************************)
(* Values                                                                  *)
(***************************************************************************)
Tokens == {"", "tok"}
FileNames == {"", "doc"}
FolderIDs == {"", "final"}
TempFolderIDs == {"", "temp"}
OldFolderIDs == {"", "old"}
\* version labels a caller passes, and descriptions a remote file carries
Labels == {"", "v1", "V1"}
Descriptions == {"", "null", "v1", "V1", "v1 "}
\* ids a search entry carries ("" is what Go decodes from an absent id)
EntryIDs == {"", "f1"}
\* what os.Stat / os.Open find at the local path
FileKinds == {"missing", "regular", "dir", "unopenable"}

(***************************************************************************)
(* HTTP requests and responses                                             *)
(***************************************************************************)
Req(method, path, id, query, body) ==
    [method |-> method, path |-> path, id |-> id, query |-> query, body |-> body]

\* a JSON object none of whose fields the code reads, such as
\* {"error": ...} or {"kind": "drive#file"}
OtherObj == [other |-> ""]

NoBody == [kind |-> "none", obj |-> OtherObj, lit |-> FALSE]
\* a body that is no JSON; lit: the bytes hold the four characters "id"
TextBody(lit) == [kind |-> "text", obj |-> OtherObj, lit |-> lit]
\* a JSON object, as its fields
JsonBody(obj) == [kind |-> "json", obj |-> obj, lit |-> FALSE]

\* http.DefaultClient.Do returned an error
NetErr == [err |-> TRUE, status |-> 0, body |-> NoBody]
HTTP(status, body) == [err |-> FALSE, status |-> status, body |-> body]

\* json.Unmarshal into struct{Files []struct{ID, Name, Description}}
UnmarshalFiles(body) ==
    IF body.kind # "json" THEN [err |-> TRUE, Files |-> <<>>]
    ELSE [err |-> FALSE,
          Files |-> IF "files" \in DOMAIN body.obj THEN body.obj.files ELSE <<>>]

\* json.Unmarshal into struct{ID string}
UnmarshalID(body) ==
    IF body.kind # "json" THEN [err |-> TRUE, ID |-> ""]
    ELSE [err |-> FALSE,
          ID |-> IF "id" \in DOMAIN body.obj THEN body.obj.id ELSE ""]

\* json.NewDecoder(resp.Body).Decode into GoogleTokenResponse
DecodeToken(body) ==
    IF body.kind # "json" THEN [err |-> TRUE, AccessToken |-> ""]
    ELSE [err |-> FALSE,
          AccessToken |-> IF "access_token" \in DOMAIN body.obj
                            THEN body.obj.access_token ELSE ""]

\* bytes.Contains(body, []byte(`"id"`))
ContainsQuotedId(body) ==
    \/ body.kind = "json" /\ "id" \in DOMAIN body.obj
    \/ body.kind = "text" /\ body.lit

(***************************************************************************)
(* The remote Drive: a set of files.                                       *)
(***************************************************************************)
DriveFile(id, name, description, parents) ==
    [id |-> id, name |-> name, description |-> description,
     parents |-> parents, restricted |-> FALSE, trashed |-> FALSE]

DriveHas(d, id) == \E f \in d : f.id = id

\* files.list with q = '<folder>' in parents and name='<name>' and trashed=false
DriveSearch(d, folder, name) ==
    {f \in d : folder \in f.parents /\ f.name = name /\ ~f.trashed}

\* files.update with a body {"name": ...}
DriveRename(d, id, name) ==
    {IF f.id = id THEN [f EXCEPT !.name = name] ELSE f : f \in d}

\* files.update with addParents / removeParents
DriveMove(d, id, add, remove) ==
    {IF f.id = id
        THEN [f EXCEPT !.parents = (f.parents \ {remove}) \cup {add}]
        ELSE f : f \in d}

\* files.delete
DriveDelete(d, id) == {f \in d : f.id # id}

\* files.update with copyRequiresWriterPermission / writersCanShare
DriveRestrict(d, id) ==
    {IF f.id = id THEN [f EXCEPT !.restricted = TRUE] ELSE f : f \in d}

\* ids the Drive gives to the files it creates
NewIDs == {"n1", "n2"}

FreshID(d) == CHOOSE id \in NewIDs : ~DriveHas(d, id)

\* files.create (multipart upload)
DriveCreate(d, id, name, description, parent) ==
    d \cup {DriveFile(id, name, description, {parent})}

(***************************************************************************)
(* The server: the answers a request can get, each with the Drive it       *)
(* leaves.  A transport error, an error status and a malformed body leave  *)
(* Drive as it was; a request the server carries out changes it.           *)
(***************************************************************************)
Reply(resp, d) == [resp |-> resp, drive |-> d]

SeqsUpTo(S, n) == UNION {[1..k -> S] : k \in 0..n}

RECURSIVE Orderings(_)
Orderings(S) ==
    IF S = {} THEN {<<>>}
    ELSE UNION {{<<x>> \o t : t \in Orderings(S \ {x})} : x \in S}

\* a files[] entry as the search returns it (fields=files(id,name,description))
Entry(id, name, description) ==
    [id |-> id, name |-> name, description |-> description]

\* the search as Drive answers it from the files it holds
FaithfulSearch(d, folder, name) ==
    {HTTP(200, JsonBody([files |-> fs])) :
        fs \in Orderings({Entry(f.id, f.name, f.description) :
                            f \in DriveSearch(d, folder, name)})}

\* any decodable file list, as a test server or a proxy may answer
AnySearch(name, n) ==
    {HTTP(200, JsonBody([files |-> fs])) :
        fs \in SeqsUpTo({Entry(id, name, de) :
                            id \in EntryIDs, de \in Descriptions}, n)}

FailedSearch ==
    {NetErr, HTTP(200, TextBody(FALSE)), HTTP(500, TextBody(FALSE)),
     HTTP(403, JsonBody(OtherObj))}

ServeSearch(d, folder, name, n) ==
    {Reply(r, d) :
        r \in FaithfulSearch(d, folder, name) \cup AnySearch(name, n)
               \cup FailedSearch}

\* a files.update (rename, move, sharing flags): after(d) is Drive once done
ServeUpdate(d, id, after) ==
    {Reply(NetErr, d), Reply(HTTP(500, TextBody(FALSE)), d),
     IF DriveHas(d, id)
        THEN Reply(HTTP(200, JsonBody([id |-> id])), after)
        ELSE Reply(HTTP(404, JsonBody(OtherObj)), d)}

\* the final move: also the answers the substring test tells apart
ServeMoveNew(d, id, after) ==
    ServeUpdate(d, id, after)
    \cup {Reply(HTTP(500, TextBody(TRUE)), d)}
    \cup (IF DriveHas(d, id)
             THEN {Reply(HTTP(200, JsonBody(OtherObj)), after)} ELSE {})

ServeDelete(d, id) ==
    {Reply(NetErr, d), Reply(HTTP(500, TextBody(FALSE)), d),
     Reply(HTTP(202, NoBody), d)}
    \cup (IF DriveHas(d, id)
             THEN {Reply(HTTP(st, NoBody), DriveDelete(d, id)) : st \in {200, 204}}
             ELSE {Reply(HTTP(404, JsonBody(OtherObj)), d)})

\* bodies an upload can be answered with, besides the new file's id
BadUploadBodies ==
    {TextBody(FALSE), JsonBody(OtherObj), JsonBody([id |-> ""])}

\* statuses an upload is answered with: those of a file created, the others
CreatedStatuses == {200, 299}
UploadStatuses == {199, 200, 204, 298, 299, 300, 404, 500}

\* created: the statuses with which Drive creates the file and names its id;
\* any: the statuses of an answer that created nothing (an id it names is of
\* no file)
ServeUpload(d, name, description, parent, created, any) ==
    {Reply(NetErr, d)}
    \cup {Reply(HTTP(st, b), d) :
            st \in any, b \in BadUploadBodies \cup {JsonBody([id |-> "ghost"])}}
    \cup (IF \E id \in NewIDs : ~DriveHas(d, id)
             THEN {Reply(HTTP(st, JsonBody([id |-> FreshID(d)])),
                         DriveCreate(d, FreshID(d), name, description, parent)) :
                     st \in created}
             ELSE {})

\* the token endpoint: it keeps nothing the model follows
IssuedTokens == {"tok-1", "tok-2"}

TokenBodies ==
    {TextBody(FALSE), JsonBody(OtherObj), JsonBody([access_token |-> ""])}
    \cup {JsonBody([access_token |-> t]) : t \in IssuedTokens}

ServeToken(d) ==
    {Reply(NetErr, d)}
    \cup {Reply(HTTP(st, b), d) : st \in {200, 400}, b \in TokenBodies}

(***************************************************************************)
(* The requests the code builds                                            *)
(***************************************************************************)
FilesPath == "/drive/v3/files"
FilePath == "/drive/v3/files/{id}"
UploadPath == "/upload/drive/v3/files"
TokenPath == "/token"

\* GET files?q='<folderID>' in parents and name='<pdfFile>' and trashed=false
SearchRequest(folderID, pdfFile) ==
    Req("GET", FilesPath, "", <<"q", folderID, pdfFile>>, <<>>)

\* PATCH files/<id> {"name": <renamedFile>}
RenameRequest(id, renamedFile) ==
    Req("PATCH", FilePath, id, <<>>, <<"name", renamedFile>>)

\* MoveRequest with the two folders taken for each other
MoveRequest_Swapped(id, add, remove) ==
    Req("PATCH", FilePath, id, <<"addParents", remove, "removeParents", add>>, <<>>)

\* PATCH files/<id>?addParents=<add>&removeParents=<remove>
MoveRequest(id, add, remove) ==
    Req("PATCH", FilePath, id, <<"addParents", add, "removeParents", remove>>, <<>>)

\* DELETE files/<id>
DeleteRequest(id) == Req("DELETE", FilePath, id, <<>>, <<>>)

\* POST upload/files?uploadType=multipart, metadata {name, parents, description}
DeployUploadRequest(pdfFile, tempFolderID, versionSafe) ==
    Req("POST", UploadPath, "", <<"uploadType", "multipart">>,
        <<"name", pdfFile, "parents", tempFolderID, "description", versionSafe>>)

\* PATCH files/<id> {"copyRequiresWriterPermission": true, "writersCanShare": false}
PermRequest(id) ==
    Req("PATCH", FilePath, id, <<>>,
        <<"copyRequiresWriterPermission", "writersCanShare">>)

(***************************************************************************)
(* Calls                                                                   *)
(***************************************************************************)
NoArgs == [op |-> "none"]
NoLocals ==
    [Files |-> <<>>, existingFileID |-> "", existingFileDesc |-> "", newFileID |-> ""]
\* err = "" is Go's nil error
NoRet == [err |-> "", exists |-> FALSE, value |-> ""]
Err(e) == [err |-> e, exists |-> FALSE, value |-> ""]

\* the files Drive holds when the model starts: the final folder is empty or
\* holds one earlier version of doc.pdf
InitialDrives ==
    {{}} \cup {{DriveFile("f1", "doc.pdf", de, {"final"})} : de \in Descriptions}

InitWith(drives, kinds) ==
    /\ pc = [p \in Procs |-> "idle"]
    /\ args = [p \in Procs |-> NoArgs]
    /\ loc = [p \in Procs |-> NoLocals]
    /\ sent = [p \in Procs |-> <<>>]
    /\ resps = [p \in Procs |-> <<>>]
    /\ ret = [p \in Procs |-> NoRet]
    /\ drive \in drives
    /\ disk \in kinds
    /\ ncalls = 0
    /\ prev = [p \in Procs |-> NoRet]
    /\ before = [p \in Procs |-> drive]
    /\ overlapped = FALSE

Init == InitWith(InitialDrives, FileKinds)

\* the call starts: nothing issued yet
Enter(p, a) ==
    /\ args' = [args EXCEPT ![p] = a]
    /\ loc' = [loc EXCEPT ![p] = NoLocals]
    /\ before' = [before EXCEPT ![p] = drive]
    /\ overlapped' = (overlapped \/ \E q \in Procs \ {p} : pc[q] \notin {"idle", "done"})

\* the function returns r
Return(p, r) ==
    /\ pc' = [pc EXCEPT ![p] = "done"]
    /\ ret' = [ret EXCEPT ![p] = r]

\* the function goes on to its next request
Goto(p, where) ==
    /\ pc' = [pc EXCEPT ![p] = where]
    /\ UNCHANGED ret

\* one round trip: the request goes out, the reply r comes back
Exchange(p, req, r) ==
    /\ sent' = [sent EXCEPT ![p] = Append(@, req)]
    /\ resps' = [resps EXCEPT ![p] = Append(@, r.resp)]
    /\ drive' = r.drive

(***************************************************************************)
(* DeployPDF                                                               *)
(***************************************************************************)
PdfFile(fileName) == fileName \o ".pdf"

\* DeployPDFValidate without the check of versionSafe
DeployPDFValidate_NoVersionCheck(a, kind) ==
    IF a.fileName = "" \/ a.accessToken = "" \/ a.tempFolderID = "" \/ a.folderID = ""
        THEN "missing required variable(s)"
    ELSE IF kind = "missing" THEN "PDF not found"
    ELSE ""

\* the sanity checks: the error returned, "" when they pass
DeployPDFValidate(a, kind) ==
    IF a.fileName = "" \/ a.accessToken = "" \/ a.tempFolderID = "" \/ a.folderID = ""
        THEN "missing required variable(s)"
    ELSE IF kind = "missing" THEN "PDF not found"
    ELSE IF a.versionSafe = "" THEN "version-safe.txt missing or empty"
    ELSE ""

DeployPDF_Call(p) ==
    /\ pc[p] = "idle"
    /\ \E accessToken \in Tokens, fileName \in FileNames, versionSafe \in Labels,
          tempFolderID \in TempFolderIDs, folderID \in FolderIDs,
          oldFolderID \in OldFolderIDs :
        LET a == [op |-> "DeployPDF", accessToken |-> accessToken,
                  fileName |-> fileName, versionSafe |-> versionSafe,
                  tempFolderID |-> tempFolderID, folderID |-> folderID,
                  oldFolderID |-> oldFolderID]
            e == DeployPDFValidate(a, disk)
        IN /\ Enter(p, a)
           /\ sent' = [sent EXCEPT ![p] = <<>>]
           /\ resps' = [resps EXCEPT ![p] = <<>>]
           /\ IF e # "" THEN Return(p, Err(e)) ELSE Goto(p, "query")
    /\ UNCHANGED <<drive, disk, ncalls, prev>>

\* if existingFileID != "" && existingFileDesc == versionSafe
\* (a variant that skips whenever a file exists, whatever its version)
AlreadyDeployed_AnyVersion(existingFileID, existingFileDesc, versionSafe) ==
    existingFileID # ""

AlreadyDeployed(existingFileID, existingFileDesc, versionSafe) ==
    existingFileID # "" /\ existingFileDesc = versionSafe

\* AfterQuery with the existing file deleted although oldFolderID is set
AfterQuery_ArchiveIgnored(existingFileID, oldFolderID) ==
    IF existingFileID # "" THEN "delete" ELSE "upload"

\* AfterQuery with the existing file left in place when oldFolderID is empty
AfterQuery_DeleteSkipped(existingFileID, oldFolderID) ==
    IF existingFileID # "" /\ oldFolderID # "" THEN "rename" ELSE "upload"

\* the branch taken on what the search found
\* (a variant that uploads next to the existing file)
AfterQuery_KeepExisting(existingFileID, oldFolderID) == "upload"

AfterQuery(existingFileID, oldFolderID) ==
    IF existingFileID # "" /\ oldFolderID # "" THEN "rename"
    ELSE IF existingFileID # "" THEN "delete"
    ELSE "upload"

DeployPDF_Query(p) ==
    /\ pc[p] = "query"
    /\ LET a == args[p]
           pdfFile == PdfFile(a.fileName)
       IN \E r \in ServeSearch(drive, a.folderID, pdfFile, MaxFiles) :
            LET result == UnmarshalFiles(r.resp.body)
                existingFileID ==
                    IF Len(result.Files) > 0 THEN result.Files[1].id ELSE ""
                existingFileDesc ==
                    IF Len(result.Files) > 0 THEN result.Files[1].description ELSE ""
            IN /\ Exchange(p, SearchRequest(a.folderID, pdfFile), r)
               /\ IF r.resp.err
                     THEN Return(p, Err("transport")) /\ UNCHANGED loc
                  ELSE IF result.err
                     THEN Return(p, Err("decode")) /\ UNCHANGED loc
                  ELSE /\ loc' = [loc EXCEPT ![p] =
                                    [@ EXCEPT !.Files = result.Files,
                                              !.existingFileID = existingFileID,
                                              !.existingFileDesc = existingFileDesc]]
                       /\ IF AlreadyDeployed(existingFileID, existingFileDesc,
                                             a.versionSafe)
                             THEN Return(p, NoRet)
                             ELSE Goto(p, AfterQuery(existingFileID, a.oldFolderID))
    /\ UNCHANGED <<args, disk, ncalls, prev, before, overlapped>>

\* fileName-<description>.pdf, "unknown" for an empty or "null" description
RenamedFile(fileName, existingFileDesc) ==
    IF existingFileDesc = "" \/ existingFileDesc = "null"
        THEN fileName \o "-unknown" \o ".pdf"
        ELSE fileName \o "-" \o existingFileDesc \o ".pdf"

DeployPDF_Rename(p) ==
    /\ pc[p] = "rename"
    /\ LET a == args[p]
           id == loc[p].existingFileID
           renamedFile == RenamedFile(a.fileName, loc[p].existingFileDesc)
       IN \E r \in ServeUpdate(drive, id, DriveRename(drive, id, renamedFile)) :
            /\ Exchange(p, RenameRequest(id, renamedFile), r)
            /\ IF r.resp.err
                  THEN Return(p, Err("failed to rename existing file"))
                  ELSE Goto(p, "moveOld")
    /\ UNCHANGED <<args, loc, disk, ncalls, prev, before, overlapped>>

DeployPDF_MoveOld(p) ==
    /\ pc[p] = "moveOld"
    /\ LET a == args[p]
           id == loc[p].existingFileID
       IN \E r \in ServeUpdate(drive, id,
                               DriveMove(drive, id, a.oldFolderID, a.folderID)) :
            /\ Exchange(p, MoveRequest(id, a.oldFolderID, a.folderID), r)
            /\ IF r.resp.err
                  THEN Return(p, Err("failed to move old file to archive"))
                  ELSE Goto(p, "upload")
    /\ UNCHANGED <<args, loc, disk, ncalls, prev, before, overlapped>>

\* resp.StatusCode is http.StatusNoContent or http.StatusOK
DeleteAccepted(status) == status = 204 \/ status = 200

DeployPDF_Delete(p) ==
    /\ pc[p] = "delete"
    /\ LET id == loc[p].existingFileID
       IN \E r \in ServeDelete(drive, id) :
            /\ Exchange(p, DeleteRequest(id), r)
            /\ IF r.resp.err
                  THEN Return(p, Err("failed to delete existing file"))
               ELSE IF ~DeleteAccepted(r.resp.status)
                  THEN Return(p, Err("failed to delete existing file: status"))
               ELSE Goto(p, "upload")
    /\ UNCHANGED <<args, loc, disk, ncalls, prev, before, overlapped>>

DeployPDF_Upload(p) ==
    /\ pc[p] = "upload"
    /\ LET a == args[p]
           pdfFile == PdfFile(a.fileName)
       IN IF disk \in {"missing", "unopenable"}
            THEN \* os.Open fails: nothing is sent
                 /\ Return(p, Err("open"))
                 /\ UNCHANGED <<loc, sent, resps, drive>>
            ELSE \E r \in ServeUpload(drive, pdfFile, a.versionSafe, a.tempFolderID,
                                     {200}, {200, 500}) :
                   LET uploadResult == UnmarshalID(r.resp.body)
                   IN /\ Exchange(p, DeployUploadRequest(pdfFile, a.tempFolderID,
                                                         a.versionSafe), r)
                      /\ IF r.resp.err
                            THEN Return(p, Err("upload failed")) /\ UNCHANGED loc
                         ELSE IF uploadResult.err \/ uploadResult.ID = ""
                            THEN Return(p, Err("upload failed: body")) /\ UNCHANGED loc
                         ELSE /\ loc' = [loc EXCEPT ![p] =
                                           [@ EXCEPT !.newFileID = uploadResult.ID]]
                              /\ Goto(p, "perm")
    /\ UNCHANGED <<args, disk, ncalls, prev, before, overlapped>>

\* (a variant that gives up when the sharing call fails)
DeployPDF_SetSharing_Checked(p) ==
    /\ pc[p] = "perm"
    /\ LET id == loc[p].newFileID
       IN \E r \in ServeUpdate(drive, id, DriveRestrict(drive, id)) :
            /\ Exchange(p, PermRequest(id), r)
            /\ IF r.resp.err \/ r.resp.status \notin 200..299
                  THEN Return(p, Err("sharing restrictions failed"))
               ELSE Goto(p, "moveNew")
    /\ UNCHANGED <<args, loc, disk, ncalls, prev, before, overlapped>>

\* the sharing restrictions: whatever comes back is dropped
DeployPDF_SetSharing(p) ==
    /\ pc[p] = "perm"
    /\ LET id == loc[p].newFileID
       IN \E r \in ServeUpdate(drive, id, DriveRestrict(drive, id)) :
            /\ Exchange(p, PermRequest(id), r)
            /\ Goto(p, "moveNew")
    /\ UNCHANGED <<args, loc, disk, ncalls, prev, before, overlapped>>

DeployPDF_MoveNew(p) ==
    /\ pc[p] = "moveNew"
    /\ LET a == args[p]
           id == loc[p].newFileID
       IN \E r \in ServeMoveNew(drive, id,
                                DriveMove(drive, id, a.folderID, a.tempFolderID)) :
            /\ Exchange(p, MoveRequest(id, a.folderID, a.tempFolderID), r)
            /\ IF r.resp.err
                  THEN Return(p, Err("move to final folder failed"))
               ELSE IF ~ContainsQuotedId(r.resp.body)
                  THEN Return(p, Err("upload succeeded, but move failed"))
               ELSE Return(p, NoRet)
    /\ UNCHANGED <<args, loc, disk, ncalls, prev, before, overlapped>>

DeployPDF(p) ==
    \/ DeployPDF_Call(p)
    \/ DeployPDF_Query(p)
    \/ DeployPDF_Rename(p)
    \/ DeployPDF_MoveOld(p)
    \/ DeployPDF_Delete(p)
    \/ DeployPDF_Upload(p)
    \/ DeployPDF_SetSharing(p)
    \/ DeployPDF_MoveNew(p)


(***************************************************************************)
(* CheckRemoteVersionExists                                                *)
(***************************************************************************)
\* the argument checks: the error returned, "" when they pass
CheckValidate(a) ==
    IF a.accessToken = "" THEN "ACCESS_TOKEN is not set"
    ELSE IF a.fileName = "" \/ a.folderID = "" \/ a.versionSafe = ""
        THEN "missing required variable(s)"
    ELSE ""

\* a string with its case folded and the space around it trimmed
Folded(str) == IF str \in {"v1", "V1", "v1 "} THEN "v1" ELSE str

\* VersionMatches comparing as strings.EqualFold on trimmed strings would
VersionMatches_Folded(Files, versionSafe) ==
    Len(Files) > 0 /\ Folded(Files[1].description) = Folded(versionSafe)

\* len(result.Files) > 0 && result.Files[0].Description == versionSafe
VersionMatches(Files, versionSafe) ==
    Len(Files) > 0 /\ Files[1].description = versionSafe

CheckRemoteVersionExists(p) ==
    /\ pc[p] = "idle"
    /\ \E accessToken \in Tokens, fileName \in FileNames, folderID \in FolderIDs,
          versionSafe \in Labels :
        LET a == [op |-> "CheckRemoteVersionExists", accessToken |-> accessToken,
                  fileName |-> fileName, folderID |-> folderID,
                  versionSafe |-> versionSafe]
            e == CheckValidate(a)
            pdfFile == PdfFile(fileName)
        IN /\ Enter(p, a)
           /\ IF e # ""
                 THEN /\ Return(p, Err(e))
                      /\ sent' = [sent EXCEPT ![p] = <<>>]
                      /\ resps' = [resps EXCEPT ![p] = <<>>]
                      /\ UNCHANGED drive
                 ELSE \E r \in ServeSearch(drive, folderID, pdfFile, MaxCheckFiles) :
                        LET result == UnmarshalFiles(r.resp.body)
                        IN /\ sent' = [sent EXCEPT ![p] =
                                         <<SearchRequest(folderID, pdfFile)>>]
                           /\ resps' = [resps EXCEPT ![p] = <<r.resp>>]
                           /\ drive' = r.drive
                           /\ IF r.resp.err THEN Return(p, Err("transport"))
                              ELSE IF result.err THEN Return(p, Err("decode"))
                              ELSE Return(p, [NoRet EXCEPT !.exists =
                                          VersionMatches(result.Files, versionSafe)])
    /\ UNCHANGED <<disk, ncalls, prev>>

\* one call of DeployPDF or of CheckRemoteVersionExists, against a server that
\* may answer anything
Next == DeployPDF("p1") \/ CheckRemoteVersionExists("p1")

Spec == Init /\ [][Next]_vars

(***************************************************************************)
(* UploadFileToDrive                                                       *)
(***************************************************************************)
FilePaths == {"", "sop/report.txt", "doc.pdf"}
UploadFolderIDs == {"", "final", "temp"}

\* filepath.Base: the last element of the path
Base(filePath) ==
    IF filePath = "sop/report.txt" THEN "report.txt"
    ELSE IF filePath = "" THEN "."
    ELSE filePath

\* UploadValidate without the finfo.IsDir() check
UploadValidate_NoDirCheck(a, kind) ==
    IF a.accessToken = "" THEN "accessToken is required"
    ELSE IF a.folderID = "" THEN "folderID is required"
    ELSE IF a.filePath = "" THEN "filePath is required"
    ELSE IF kind = "missing" THEN "stat file"
    ELSE IF kind = "unopenable" THEN "open file"
    ELSE ""

\* the checks made before the request is built: the error, "" when they pass
UploadValidate(a, kind) ==
    IF a.accessToken = "" THEN "accessToken is required"
    ELSE IF a.folderID = "" THEN "folderID is required"
    ELSE IF a.filePath = "" THEN "filePath is required"
    ELSE IF kind = "missing" THEN "stat file"
    ELSE IF kind = "dir" THEN "filePath is a directory"
    ELSE IF kind = "unopenable" THEN "open file"
    ELSE ""

\* POST upload/files?uploadType=multipart, metadata {name, parents}
UploadRequest(fileName, folderID) ==
    Req("POST", UploadPath, "", <<"uploadType", "multipart">>,
        <<"name", fileName, "parents", folderID>>)

\* StatusOK with 299 taken as the first failing status
StatusOK_Below299(status) == ~(status < 200 \/ status >= 299)

\* resp.StatusCode < 200 || resp.StatusCode >= 300 is a failure
StatusOK(status) == ~(status < 200 \/ status >= 300)

\* what the function returns on the response it got
UploadResult(resp) ==
    LET result == UnmarshalID(resp.body)
    IN IF resp.err THEN Err("upload request failed")
       ELSE IF ~StatusOK(resp.status) THEN Err("upload failed: status")
       ELSE IF result.err THEN Err("decode upload response")
       ELSE IF result.ID = "" THEN Err("upload succeeded but returned empty id")
       ELSE [NoRet EXCEPT !.value = result.ID]

UploadFileToDrive(p) ==
    /\ pc[p] = "idle"
    /\ \E accessToken \in Tokens, folderID \in UploadFolderIDs,
          filePath \in FilePaths :
        LET a == [op |-> "UploadFileToDrive", accessToken |-> accessToken,
                  folderID |-> folderID, filePath |-> filePath]
            \* nothing is at the empty path
            kind == IF filePath = "" THEN "missing" ELSE disk
            e == UploadValidate(a, kind)
            fileName == Base(filePath)
        IN /\ Enter(p, a)
           /\ IF e # ""
                 THEN /\ Return(p, Err(e))
                      /\ sent' = [sent EXCEPT ![p] = <<>>]
                      /\ resps' = [resps EXCEPT ![p] = <<>>]
                      /\ UNCHANGED drive
                 ELSE \E r \in ServeUpload(drive, fileName, "", folderID,
                                           CreatedStatuses, UploadStatuses) :
                        /\ sent' = [sent EXCEPT ![p] =
                                      <<UploadRequest(fileName, folderID)>>]
                        /\ resps' = [resps EXCEPT ![p] = <<r.resp>>]
                        /\ drive' = r.drive
                        /\ Return(p, UploadResult(r.resp))
    /\ UNCHANGED <<disk, ncalls, prev>>

NextUpload == UploadFileToDrive("p1")

SpecUpload == InitWith({{}}, FileKinds) /\ [][NextUpload]_vars

(***************************************************************************)
(* GetGoogleAccessToken                                                    *)
(***************************************************************************)
Credentials == {"", "cred"}

\* POST {client_id, client_secret, refresh_token, grant_type} to the token endpoint
TokenRequest(clientID, clientSecret, refreshToken) ==
    Req("POST", TokenPath, "", <<>>,
        <<"client_id", clientID, "client_secret", clientSecret,
          "refresh_token", refreshToken, "grant_type", "refresh_token">>)

\* TokenResult without the check for an empty AccessToken
TokenResult_NoEmptyCheck(resp) ==
    LET tokenResp == DecodeToken(resp.body)
    IN IF resp.err THEN Err("transport")
       ELSE IF tokenResp.err THEN Err("failed to decode token response")
       ELSE [NoRet EXCEPT !.value = tokenResp.AccessToken]

\* what the function returns on the response it got
TokenResult(resp) ==
    LET tokenResp == DecodeToken(resp.body)
    IN IF resp.err THEN Err("transport")
       ELSE IF tokenResp.err THEN Err("failed to decode token response")
       ELSE IF tokenResp.AccessToken = "" THEN Err("no access_token in response")
       ELSE [NoRet EXCEPT !.value = tokenResp.AccessToken]

GetGoogleAccessToken(p) ==
    /\ pc[p] = "idle"
    /\ \E clientID \in Credentials, clientSecret \in Credentials,
          refreshToken \in Credentials :
        LET a == [op |-> "GetGoogleAccessToken", clientID |-> clientID,
                  clientSecret |-> clientSecret, refreshToken |-> refreshToken]
        IN /\ Enter(p, a)
           /\ \E r \in ServeToken(drive) :
                /\ sent' = [sent EXCEPT ![p] =
                       <<TokenRequest(clientID, clientSecret, refreshToken)>>]
                /\ resps' = [resps EXCEPT ![p] = <<r.resp>>]
                /\ drive' = r.drive
                /\ Return(p, TokenResult(r.resp))
    /\ UNCHANGED <<disk, ncalls, prev>>

\* the caller calls again: every call is a call of its own
Again(p) ==
    /\ pc[p] = "done"
    /\ ncalls + 1 < MaxCalls
    /\ ncalls' = ncalls + 1
    /\ pc' = [pc EXCEPT ![p] = "idle"]
    /\ prev' = [prev EXCEPT ![p] = ret[p]]
    /\ UNCHANGED <<args, loc, sent, resps, ret, drive, disk, before, overlapped>>

NextToken == GetGoogleAccessToken("p1") \/ Again("p1")

SpecToken == InitWith({{}}, {"regular"}) /\ [][NextToken]_vars

(***************************************************************************)
(* Two deployments of one document, against a Drive that carries out      *)
(* every request and answers it truthfully.  Nothing in DeployPDF keeps    *)
(* one call from running while another does: their requests interleave    *)
(* in any order.                                                           *)
(***************************************************************************)
\* what Drive d answers to request q when it carries it out
FaithfulAnswers(q, d) ==
    CASE q.method = "GET" -> FaithfulSearch(d, q.query[2], q.query[3])
      [] q.method = "POST" ->
            IF \E id \in NewIDs : ~DriveHas(d, id)
                THEN {HTTP(200, JsonBody([id |-> FreshID(d)]))} ELSE {}
      [] q.method = "DELETE" ->
            IF DriveHas(d, q.id) THEN {HTTP(204, NoBody)}
            ELSE {HTTP(404, JsonBody(OtherObj))}
      [] OTHER ->
            IF DriveHas(d, q.id) THEN {HTTP(200, JsonBody([id |-> q.id]))}
            ELSE {HTTP(404, JsonBody(OtherObj))}

\* the step of p, if it was a round trip, got such an answer
FaithfulStep(p) ==
    (sent'[p] # sent[p] /\ sent'[p] # <<>>) =>
        resps'[p][Len(resps'[p])] \in FaithfulAnswers(sent'[p][Len(sent'[p])], drive)

\* the arguments of a deployment of doc.pdf to the final folder
SameDocument(a) ==
    /\ a.accessToken = "tok" /\ a.fileName = "doc" /\ a.versionSafe # ""
    /\ a.tempFolderID = "temp" /\ a.folderID = "final"

FaithfulDeployPDF(p) ==
    \/ DeployPDF_Call(p) /\ SameDocument(args'[p])
    \/ DeployPDF_Query(p) /\ FaithfulStep(p)
    \/ DeployPDF_Rename(p) /\ FaithfulStep(p)
    \/ DeployPDF_MoveOld(p) /\ FaithfulStep(p)
    \/ DeployPDF_Delete(p) /\ FaithfulStep(p)
    \/ DeployPDF_Upload(p) /\ FaithfulStep(p)
    \/ DeployPDF_SetSharing(p) /\ FaithfulStep(p)
    \/ DeployPDF_MoveNew(p) /\ FaithfulStep(p)

NextRace == FaithfulDeployPDF("p1") \/ FaithfulDeployPDF("p2")

SpecRace == InitWith(InitialDrives, {"regular", "unopenable"}) /\ [][NextRace]_vars

(***************************************************************************)
(* One deployment after another, against the same Drive: the second call  *)
(* begins once the first has returned.  Drive may hold, to start with,     *)
(* more than one file of the name, and a trashed one.                      *)
(***************************************************************************)
TrashedFile == [DriveFile("t1", "doc.pdf", "v1", {"final"}) EXCEPT !.trashed = TRUE]

RepeatDrives ==
    {d \cup t :
        d \in InitialDrives
               \cup {{DriveFile("f1", "doc.pdf", d1, {"final"}),
                      DriveFile("f2", "doc.pdf", d2, {"final"})} :
                        d1 \in {"", "v1"}, d2 \in {"", "v1"}},
        t \in {{}, {TrashedFile}}}

NextRepeat ==
    \/ FaithfulDeployPDF("p1")
    \/ pc["p1"] = "done" /\ FaithfulDeployPDF("p2")

SpecRepeat == InitWith(RepeatDrives, {"regular", "unopenable"}) /\ [][NextRepeat]_vars

(***************************************************************************)
(* Properties                                                              *)
(***************************************************************************)
P == "p1"

Deploying == args[P].op = "DeployPDF"
Checking == args[P].op = "CheckRemoteVersionExists"
Done == pc[P] = "done"
Success == Done /\ ret[P].err = ""

Methods == [i \in 1..Len(sent[P]) |-> sent[P][i].method]

Is2xx(status) == status \in 200..299

\* the search was answered with a file list: the list
SearchDecoded ==
    /\ Len(resps[P]) >= 1
    /\ ~resps[P][1].err
    /\ resps[P][1].body.kind = "json"
FoundFiles ==
    IF "files" \in DOMAIN resps[P][1].body.obj
        THEN resps[P][1].body.obj.files ELSE <<>>
NoFileFound == SearchDecoded /\ FoundFiles = <<>>
\* an existing file, of another version than the one to deploy
OtherVersionFound ==
    /\ SearchDecoded
    /\ Len(FoundFiles) > 0
    /\ FoundFiles[1].id # ""
    /\ FoundFiles[1].description # args[P].versionSafe

\* the id a response body names, "" when it names none
NamedID(r) ==
    IF r.body.kind = "json" /\ "id" \in DOMAIN r.body.obj THEN r.body.obj.id ELSE ""

\* the kinds of request a deployment issues
IsSearch(q) ==
    /\ q.method = "GET" /\ q.path = FilesPath
    /\ q.query = <<"q", args[P].folderID, args[P].fileName \o ".pdf">>
IsRename(q, id) ==
    /\ q.method = "PATCH" /\ q.path = FilePath /\ q.id = id
    /\ q.query = <<>> /\ Len(q.body) = 2 /\ q.body[1] = "name"
IsMove(q, id, from, to) ==
    /\ q.method = "PATCH" /\ q.path = FilePath /\ q.id = id
    /\ q.query = <<"addParents", to, "removeParents", from>>
IsDelete(q, id) == q.method = "DELETE" /\ q.path = FilePath /\ q.id = id
IsUpload(q) ==
    /\ q.method = "POST" /\ q.path = UploadPath
    /\ q.body = <<"name", args[P].fileName \o ".pdf", "parents", args[P].tempFolderID,
                  "description", args[P].versionSafe>>
IsSharing(q, id) ==
    /\ q.method = "PATCH" /\ q.path = FilePath /\ q.id = id
    /\ q.query = <<>> /\ Len(q.body) = 2 /\ q.body[1] = "copyRequiresWriterPermission"

\* call i was answered, with a 2xx status and the body its caller needs
Succeeded(i) ==
    LET q == sent[P][i]
        r == resps[P][i]
    IN /\ ~r.err
       /\ Is2xx(r.status)
       /\ q.method = "GET" => r.body.kind = "json"
       /\ (q.method = "POST" \/ (q.method = "PATCH" /\ q.query # <<>>))
            => NamedID(r) # ""
AllSucceeded == \A i \in 1..Len(sent[P]) : Succeeded(i)

\* os.Open finds the PDF that os.Stat found
PdfOpens == disk # "unopenable"

\* C1 (as amended): when the search returns no file, the PDF can be opened and
\* every remote call succeeds, DeployPDF issues exactly GET (search), POST
\* (upload), PATCH (sharing restrictions), PATCH (move to the final folder),
\* four requests and no others, whatever oldFolderID is, and returns nil.
NoExistingStep(i) ==
    LET q == sent[P][i]
    IN CASE i = 1 -> IsSearch(q)
         [] i = 2 -> IsUpload(q)
         [] i = 3 -> IsSharing(q, NamedID(resps[P][2]))
         [] i = 4 -> IsMove(q, NamedID(resps[P][2]), args[P].tempFolderID,
                            args[P].folderID)
         [] OTHER -> FALSE
C1_NoExistingFourRequests ==
    (Deploying /\ NoFileFound /\ AllSucceeded /\ PdfOpens) =>
        /\ \A i \in 1..Len(sent[P]) : NoExistingStep(i)
        /\ Done => (Len(sent[P]) = 4 /\ ret[P].err = "")
C1_Witness ==
    /\ Deploying /\ NoFileFound /\ AllSucceeded /\ PdfOpens
    /\ Success /\ Methods = <<"GET", "POST", "PATCH", "PATCH">>
    /\ args[P].oldFolderID # ""
\* C1 as stated: three requests, GET, POST, PATCH, and no others
C1_ExactlyThreeRequests ==
    (Deploying /\ NoFileFound /\ AllSucceeded /\ PdfOpens /\ Done) =>
        (Methods = <<"GET", "POST", "PATCH">> /\ ret[P].err = "")

\* C2: when the search returns an existing file of another version and
\* oldFolderID is set, the requests are, in this order, GET (search), PATCH
\* renaming the existing file, PATCH moving it from folderID to oldFolderID,
\* POST (upload into tempFolderID), [the sharing PATCH,] PATCH moving the new
\* file from tempFolderID to folderID: a run issues a prefix of them, all of
\* them when it returns nil; and with oldFolderID set no DELETE is ever issued.
ArchiveStep(i) ==
    LET q == sent[P][i]
        old == FoundFiles[1].id
    IN CASE i = 1 -> IsSearch(q)
         [] i = 2 -> IsRename(q, old)
         [] i = 3 -> IsMove(q, old, args[P].folderID, args[P].oldFolderID)
         [] i = 4 -> IsUpload(q)
         [] i = 5 -> IsSharing(q, NamedID(resps[P][4]))
         [] i = 6 -> IsMove(q, NamedID(resps[P][4]), args[P].tempFolderID,
                            args[P].folderID)
         [] OTHER -> FALSE
C2_ArchiveSequence ==
    /\ (Deploying /\ OtherVersionFound /\ args[P].oldFolderID # "") =>
            /\ \A i \in 1..Len(sent[P]) : ArchiveStep(i)
            /\ Success => Len(sent[P]) = 6
    /\ (Deploying /\ args[P].oldFolderID # "") =>
            \A i \in 1..Len(sent[P]) : sent[P][i].method # "DELETE"
C2_Witness ==
    /\ Deploying /\ OtherVersionFound /\ args[P].oldFolderID # ""
    /\ Success
    /\ Methods = <<"GET", "PATCH", "PATCH", "POST", "PATCH", "PATCH">>

\* C3: when the search returns an existing file of another version and
\* oldFolderID is empty, the requests are GET (search), DELETE of the existing
\* file id, POST (upload), [the sharing PATCH,] PATCH (move to the final
\* folder), in that order: a run issues a prefix of them, all of them when it
\* returns nil; the DELETE precedes the POST and no PATCH names the existing
\* file.
DeleteStep(i) ==
    LET q == sent[P][i]
        old == FoundFiles[1].id
    IN CASE i = 1 -> IsSearch(q)
         [] i = 2 -> IsDelete(q, old)
         [] i = 3 -> IsUpload(q)
         [] i = 4 -> IsSharing(q, NamedID(resps[P][3]))
         [] i = 5 -> IsMove(q, NamedID(resps[P][3]), args[P].tempFolderID,
                            args[P].folderID)
         [] OTHER -> FALSE
C3_DeleteSequence ==
    (Deploying /\ OtherVersionFound /\ args[P].oldFolderID = "") =>
        /\ \A i \in 1..Len(sent[P]) : DeleteStep(i)
        /\ Success => Len(sent[P]) = 5
        /\ \A i, j \in 1..Len(sent[P]) :
              (sent[P][i].method = "DELETE" /\ sent[P][j].method = "POST") => i < j
        /\ \A i \in 1..Len(sent[P]) :
              ~(sent[P][i].method = "PATCH" /\ sent[P][i].id = FoundFiles[1].id)
C3_Witness ==
    /\ Deploying /\ OtherVersionFound /\ args[P].oldFolderID = ""
    /\ Success
    /\ Methods = <<"GET", "DELETE", "POST", "PATCH", "PATCH">>

\* C4 as stated: whenever the first file the search returns carries a
\* description equal to versionSafe, DeployPDF returns nil after the GET
\* alone and Drive is as the call found it, whatever oldFolderID is.
C4_SkipOnMatchingDescription ==
    (Deploying /\ SearchDecoded /\ Len(FoundFiles) > 0
       /\ FoundFiles[1].description = args[P].versionSafe) =>
        /\ Success
        /\ Methods = <<"GET">>
        /\ drive = before[P]

\* C5 as stated: a search, archive rename, archive move, delete or upload that
\* fails (transport error, non-2xx status, malformed or incomplete body) is
\* the last request of the call, and the call returns an error.
IsStep2To7(q) ==
    \/ q.method \in {"GET", "DELETE", "POST"}
    \/ q.method = "PATCH" /\ q.id = loc[P].existingFileID /\ q.id # ""
Failed(i) ==
    LET q == sent[P][i]
        r == resps[P][i]
    IN \/ r.err
       \/ ~Is2xx(r.status)
       \/ q.method = "GET" /\ r.body.kind # "json"
       \/ q.method = "POST" /\ NamedID(r) = ""
C5_FailureAborts ==
    Deploying =>
        \A i \in 1..Len(sent[P]) :
            (IsStep2To7(sent[P][i]) /\ Failed(i)) =>
                (i = Len(sent[P]) /\ Done /\ ret[P].err # "")

\* C6: DeployPDF called with an empty accessToken, fileName, tempFolderID,
\* folderID or versionSafe, or with no <fileName>.pdf under sopDir, and
\* CheckRemoteVersionExists called with an empty accessToken, fileName,
\* folderID or versionSafe, return an error and issue no HTTP request.
InvalidDeployCall ==
    /\ Deploying
    /\ \/ args[P].accessToken = "" \/ args[P].fileName = ""
       \/ args[P].tempFolderID = "" \/ args[P].folderID = ""
       \/ args[P].versionSafe = "" \/ disk = "missing"
InvalidCheckCall ==
    /\ Checking
    /\ \/ args[P].accessToken = "" \/ args[P].fileName = ""
       \/ args[P].folderID = "" \/ args[P].versionSafe = ""
C6_InvalidCallSendsNothing ==
    (InvalidDeployCall \/ InvalidCheckCall) =>
        /\ Done
        /\ ret[P].err # ""
        /\ sent[P] = <<>>
        /\ drive = before[P]
C6_Witness ==
    /\ Deploying /\ Done
    /\ args[P].accessToken # "" /\ args[P].fileName # ""
    /\ args[P].tempFolderID # "" /\ args[P].folderID # ""
    /\ args[P].versionSafe = "" /\ disk = "regular"
    /\ ret[P].err # ""

\* C7: for valid arguments and a decodable search response,
\* CheckRemoteVersionExists returns (true, nil) exactly when the file list is
\* not empty and its first entry's description is versionSafe, character for
\* character; in every other decodable case it returns (false, nil).
C7_ExistsIffFirstDescriptionEqual ==
    (Checking /\ SearchDecoded) =>
        /\ Done
        /\ ret[P].err = ""
        /\ ret[P].exists <=>
              (Len(FoundFiles) > 0 /\ FoundFiles[1].description = args[P].versionSafe)
C7_Witness ==
    /\ Checking /\ SearchDecoded /\ Done
    /\ Len(FoundFiles) = 2
    /\ args[P].versionSafe = "v1"
    /\ FoundFiles[1].description \in {"V1", "v1 "}
    /\ FoundFiles[2].description = "v1"
    /\ ret[P].err = "" /\ ~ret[P].exists

\* C8: GetGoogleAccessToken returns the response's access_token and no error
\* when the response is JSON with a non-empty access_token; when it is JSON
\* without one, or no JSON, it returns an error and the empty string.  Every
\* call issues one POST to the token endpoint and answers from its response,
\* whatever the call before returned.
Exchanging == args[P].op = "GetGoogleAccessToken"
IssuedToken(r) ==
    IF r.body.kind = "json" /\ "access_token" \in DOMAIN r.body.obj
        THEN r.body.obj.access_token ELSE ""
C8_TokenFromResponse ==
    (Exchanging /\ Done) =>
        /\ Len(sent[P]) = 1
        /\ sent[P][1].method = "POST" /\ sent[P][1].path = TokenPath
        /\ Len(resps[P]) = 1
        /\ IF ~resps[P][1].err /\ IssuedToken(resps[P][1]) # ""
             THEN ret[P].err = "" /\ ret[P].value = IssuedToken(resps[P][1])
             ELSE ret[P].err # "" /\ ret[P].value = ""
C8_Witness ==
    /\ Exchanging /\ Done /\ ncalls = 1
    /\ prev[P].err = "" /\ prev[P].value = "tok-1"
    /\ ret[P].err = "" /\ ret[P].value = "tok-2"

\* C9: UploadFileToDrive called with an empty accessToken, folderID or
\* filePath, with a filePath that does not exist or with one that is a
\* directory returns an error and an empty id, and issues no HTTP request.
Uploading == args[P].op = "UploadFileToDrive"
InvalidUploadCall ==
    /\ Uploading
    /\ \/ args[P].accessToken = "" \/ args[P].folderID = ""
       \/ args[P].filePath = "" \/ disk \in {"missing", "dir"}
C9_InvalidUploadSendsNothing ==
    InvalidUploadCall =>
        /\ Done
        /\ ret[P].err # "" /\ ret[P].value = ""
        /\ sent[P] = <<>>
        /\ drive = before[P]
C9_Witness ==
    /\ Uploading /\ Done
    /\ args[P].accessToken # "" /\ args[P].folderID # "" /\ args[P].filePath # ""
    /\ disk = "dir"
    /\ ret[P].err # ""

\* C10 (as amended): for a valid local file, UploadFileToDrive returns
\* (id, nil), id being the id of the response body, exactly when the status
\* is in [200,300) and the body is JSON with a non-empty id; for a status
\* outside [200,300), a body that is no JSON, and a missing or empty id it
\* returns an error and an empty id.
ValidUploadCall ==
    /\ Uploading
    /\ args[P].accessToken # "" /\ args[P].folderID # "" /\ args[P].filePath # ""
    /\ disk = "regular"
UploadReturns(statuses) ==
    LET r == resps[P][1]
        ok == ~r.err /\ r.status \in statuses /\ NamedID(r) # ""
    IN /\ Done
       /\ Len(sent[P]) = 1 /\ Len(resps[P]) = 1
       /\ IF ok THEN ret[P].err = "" /\ ret[P].value = NamedID(r)
                ELSE ret[P].err # "" /\ ret[P].value = ""
C10_IdIffStatusBelow300 == ValidUploadCall => UploadReturns(200..299)
C10_Witness ==
    /\ ValidUploadCall /\ Done
    /\ resps[P][1].status = 299
    /\ ret[P].err = "" /\ ret[P].value = NamedID(resps[P][1]) /\ ret[P].value # ""
\* C10 as stated: the statuses that succeed are those of [200,299)
C10_IdIffStatusBelow299 == ValidUploadCall => UploadReturns(200..298)

\* C11: the outcome of the sharing PATCH never influences DeployPDF. Whether
\* that call succeeds, is answered with a non-2xx status or fails in transport,
\* the next thing DeployPDF does is the PATCH moving the new file from
\* tempFolderID to folderID, after which it returns; and what it returns is
\* what the response to that final move alone determines.
FinalMoveResult(r) ==
    IF r.err THEN Err("move to final folder failed")
    ELSE IF ~ContainsQuotedId(r.body) THEN Err("upload succeeded, but move failed")
    ELSE NoRet
SharingSentAt(k) ==
    /\ k \in 1..Len(sent[P])
    /\ IsSharing(sent[P][k], loc[P].newFileID)
C11_SharingOutcomeIgnored ==
    Deploying =>
        \A k \in 1..Len(sent[P]) :
            SharingSentAt(k) =>
                /\ k = Len(sent[P]) => pc[P] = "moveNew"
                /\ k < Len(sent[P]) =>
                      /\ Len(sent[P]) = k + 1
                      /\ IsMove(sent[P][k + 1], loc[P].newFileID,
                                args[P].tempFolderID, args[P].folderID)
                      /\ Done
                      /\ ret[P] = FinalMoveResult(resps[P][k + 1])
\* the sharing call failed in transport, and the deployment succeeded
C11_Witness ==
    /\ Deploying /\ Success
    /\ \E k \in 1..Len(sent[P]) : SharingSentAt(k) /\ resps[P][k].err
C11_WitnessStatus ==
    /\ Deploying /\ Success
    /\ \E k \in 1..Len(sent[P]) :
         SharingSentAt(k) /\ ~resps[P][k].err /\ ~Is2xx(resps[P][k].status)

\* C12: after a successful upload, DeployPDF returns nil if and only if the
\* body of the final-move response contains "id" (with the quotation marks),
\* whatever the status; when it does not, DeployPDF returns an error, issues
\* no further request, the new file is still in tempFolderID and not in
\* folderID, and the previous version has already been archived or deleted.
\* (Stated for the answers Drive itself gives to the upload and to the final
\* move: a 200 answer carries the id that was asked for.)
NewFileUploaded ==
    /\ Len(sent[P]) >= 2
    /\ \E u \in 2..Len(sent[P]) :
         /\ IsUpload(sent[P][u])
         /\ ~resps[P][u].err /\ resps[P][u].status = 200
         /\ NamedID(resps[P][u]) = loc[P].newFileID
         /\ loc[P].newFileID \in NewIDs
FinalMoveAnswered ==
    /\ Done
    /\ IsMove(sent[P][Len(sent[P])], loc[P].newFileID, args[P].tempFolderID,
              args[P].folderID)
FinalMoveResponse == resps[P][Len(resps[P])]
DriveAnsweredFinalMove ==
    \/ FinalMoveResponse.err
    \/ Is2xx(FinalMoveResponse.status) /\ NamedID(FinalMoveResponse) = loc[P].newFileID
    \/ ~Is2xx(FinalMoveResponse.status) /\ ~ContainsQuotedId(FinalMoveResponse.body)
NewFileLeftInTemp ==
    \E f \in drive :
        /\ f.id = loc[P].newFileID
        /\ args[P].tempFolderID \in f.parents
        /\ args[P].folderID \notin f.parents
\* the file the search returned is no longer in folderID: gone, or in oldFolderID
PreviousVersionRemoved ==
    OtherVersionFound =>
        \A f \in drive :
            f.id = FoundFiles[1].id =>
                /\ args[P].folderID \notin f.parents
                /\ args[P].oldFolderID \in f.parents
C12_FinalMoveDecidedBySubstring ==
    (Deploying /\ NewFileUploaded /\ FinalMoveAnswered /\ DriveAnsweredFinalMove) =>
        /\ Success <=> (~FinalMoveResponse.err
                          /\ ContainsQuotedId(FinalMoveResponse.body))
        /\ ~ContainsQuotedId(FinalMoveResponse.body) =>
              /\ ret[P].err # ""
              /\ NewFileLeftInTemp
              /\ PreviousVersionRemoved

\* C13: DeployPDF takes its 'already deployed' branch on a search response
\* exactly when CheckRemoteVersionExists returns true for the same response
\* and the same versionLabel: on every decodable file list, a first entry
\* without id included, the two make the same decision.
SkipTaken == Success /\ Methods = <<"GET">>
C13_SameDecisionAsCheck ==
    (Deploying /\ SearchDecoded) =>
        (SkipTaken <=> VersionMatches(FoundFiles, args[P].versionSafe))

\* C14: two DeployPDF calls for the same fileName and folderID run without
\* mutual exclusion. There is an interleaving in which both search before
\* either changes Drive, both then archive the same existing file, both
\* upload and both move, and folderID ends up holding two files named
\* fileName.pdf; run strictly one after the other with the same versionLabel,
\* no such state is reached.
NamedAlike(d) == DriveSearch(d, "final", "doc.pdf")
Duplicated == Cardinality(NamedAlike(drive)) >= 2
SameVersion ==
    (args["p1"].op = "DeployPDF" /\ args["p2"].op = "DeployPDF") =>
        args["p1"].versionSafe = args["p2"].versionSafe
ArchivedAndDeployed(p) ==
    /\ pc[p] = "done" /\ ret[p].err = ""
    /\ Len(sent[p]) = 6
    /\ resps[p][1].body.obj.files[1].id = "f1"
    /\ sent[p][2].method = "PATCH" /\ sent[p][2].id = "f1"
    /\ sent[p][3].method = "PATCH" /\ sent[p][3].id = "f1"
    /\ sent[p][3].query = <<"addParents", "old", "removeParents", "final">>
    /\ sent[p][4].method = "POST"
    /\ sent[p][6].method = "PATCH" /\ sent[p][6].id = loc[p].newFileID
    /\ sent[p][6].query = <<"addParents", "final", "removeParents", "temp">>
Returned(p) == pc[p] = "done" /\ ret[p].err = ""
\* p is the call that returned last
LastCall(p) ==
    \/ p = "p1" /\ pc["p2"] = "idle"
    \/ p = "p2" /\ pc["p2"] = "done"
ExactlyOneOfVersion(d, versionSafe) ==
    /\ Cardinality(NamedAlike(d)) = 1
    /\ \A f \in NamedAlike(d) : f.description = versionSafe
SecondCallSkips ==
    /\ Len(sent["p2"]) = 1
    /\ sent["p2"][1] = SearchRequest("final", "doc.pdf")
    /\ ret["p2"].err = ""
    /\ drive = before["p2"]
Idempotent ==
    /\ \A p \in Procs :
         (Returned(p) /\ LastCall(p)) => ExactlyOneOfVersion(drive, args[p].versionSafe)
    /\ (Returned("p1") /\ pc["p2"] = "done" /\ args["p2"] = args["p1"])
          => SecondCallSkips
OneFileAtMost == Cardinality(NamedAlike(before["p1"])) <= 1
C15_IdempotentFromOneFile == OneFileAtMost => Idempotent
\* the first call archived a file of another version and uploaded, next to a
\* trashed file of the name; the second call, with its arguments, skipped
C15_Witness ==
    /\ OneFileAtMost
    /\ ArchivedAndDeployed("p1")
    /\ TrashedFile \in drive
    /\ pc["p2"] = "done" /\ args["p2"] = args["p1"]
    /\ SecondCallSkips
\* C15 as stated: whatever folderID holds to start with
C15_Idempotent == Idempotent
====
